---- MODULE Spec2Model ----
(***************************************************************************)
(* Model of the WebP encoding layer of src/webp/src/lib.rs: one call of    *)
(* Encoder::encode() (the unsafe fn encode it delegates to) run step by    *)
(* step against libwebp, followed by the life of the returned WebPMemory   *)
(* (Deref and Drop).                                                       *)
(*                                                                         *)
(* libwebp is a foreign library.  Its return flags are nondeterministic    *)
(* (any native step may report 0); the effects of its primitives on the    *)
(* descriptors they are handed follow libwebp's encoder: config-init and   *)
(* picture-init overwrite the structure with library defaults, the import  *)
(* primitives read height rows of width*step bytes at the given stride and *)
(* allocate the picture's internal buffers, WebPEncode emits the container *)
(* through the installed write callback before it reports success,         *)
(* WebPPictureFree releases the picture's internal buffers only, and       *)
(* WebPMemoryWriterClear / WebPFree release a sink block.                  *)
(***************************************************************************)
EXTENDS Integers, Sequences, FiniteSets, TLC

VARIABLES
    enc,        \* the Encoder: cfg, layout, image, other, width, height
    overflowChecks, \* build profile: integer overflow panics (debug) or wraps
    pc,         \* position of the call inside encode()
    boxes,      \* live Box allocations made by encode (Box::into_raw)
    cfgBox,     \* *cfg_ptr
    picture,    \* *picture_ptr
    writer,     \* *writer_ptr
    ok,         \* the last success flag returned by a native step
    calls,      \* native calls made so far, in order
    failed,     \* native steps that returned 0, in order
    importArgs, \* arguments of the import primitive, once invoked
    encodeArgs, \* *cfg_ptr and *picture_ptr as WebPEncode received them
    afterFree,  \* accesses of *picture_ptr made after WebPPictureFree
    oobRead,    \* the import primitive read outside the pixel slice
    live,       \* blocks of the foreign allocator currently allocated
    freeCalls,  \* number of foreign free calls per block
    nextBlock,  \* next block the foreign allocator hands out
    nWrites,    \* write callbacks made during the current WebPEncode
    encodeCode, \* error code WebPEncode stored when it returned
    sinkAtReturn, \* the sink (mem, size) when WebPEncode returned
    result,     \* what encode() returned
    out,        \* the returned WebPMemory (ptr, size)
    outState,   \* "none", "live" or "dropped"
    viewLen,    \* length of the last slice Deref exposed, -1 before any
    \* two encode() calls running on two threads (SpecPar)
    pEnc,       \* the Encoder of each call
    pScript,    \* what the codec does for each call: failing step, writes
    pPc,        \* position of each call inside encode()
    pPtr,       \* cfg_ptr, picture_ptr, writer_ptr of each call
    nextAddr,   \* next address the Box allocator hands out
    boxCfg,     \* heap: the WebPConfig at each address
    boxPic,     \* heap: the WebPPicture at each address
    boxWr,      \* heap: the WebPMemoryWriter at each address
    pOk,        \* each call's last success flag
    refs,       \* addresses each call's native calls were handed or reached
    pData,      \* bytes held by each block of the foreign allocator
    pNextBlock, \* next block the foreign allocator hands out
    pWrites,    \* write callbacks made so far by each call's WebPEncode
    pRes        \* what each call returned: kind, code, bytes

vars == <<enc, overflowChecks, pc, boxes, cfgBox, picture, writer, ok, calls,
          failed, encodeArgs, afterFree,
          importArgs, oobRead, live, freeCalls, nextBlock, nWrites,
          encodeCode, sinkAtReturn, result, out, outState, viewLen,
          pEnc, pScript, pPc, pPtr, nextAddr, boxCfg, boxPic, boxWr, pOk, refs,
          pData, pNextBlock, pWrites, pRes>>

parVars == <<pEnc, pScript, pPc, pPtr, nextAddr, boxCfg, boxPic, boxWr, pOk,
             refs, pData, pNextBlock, pWrites, pRes>>

(***************************************************************************)
(* Bounds of the model.                                                    *)
(***************************************************************************)
MaxWrites == 3      \* write callbacks per WebPEncode
MaxChunk == 2       \* bytes per write callback
MinSinkCap == 3     \* smallest capacity the memory writer allocates

NULL == 0           \* std::ptr::null_mut()
Blocks == 1..(MaxWrites + 1)

VP8_ENC_OK == 0
ErrorCodes == {1, 4, 9}   \* out of memory, invalid configuration, bad write

Layouts == {"RGB", "RGBA", "BGR", "BGRA", "Other"}

\* u32 and c_int are modelled with 8 bits in place of 32: IntMin..IntMax is
\* the range of c_int, 0..UIntMax the range of u32.
IntMax == 2 ^ 7 - 1
IntMin == 0 - 2 ^ 7
UIntMax == 2 ^ 8 - 1

\* widths: empty, small, one whose RGB stride overflows c_int, the largest
Widths == {0, 1, 2, IntMax \div 3 + 1, UIntMax}
Heights == {0, 1, 2}
Lens == {0, 4, 12, 16}

(***************************************************************************)
(* config(): the four knobs plus the fixed defaults.                       *)
(***************************************************************************)
config(lossless, quality, method, multi_threading) ==
    [lossless |-> IF lossless THEN 1 ELSE 0,
     quality |-> quality,
     method |-> method,
     segments |-> 4,
     alpha_quality |-> 100,
     pass |-> 5,
     thread_level |-> IF multi_threading THEN 1 ELSE 0,
     near_lossless |-> 100,
     qmin |-> 0,
     qmax |-> 100]

\* WebPConfig is re-exported (line 10), so a caller can also hand the Encoder
\* a structure whose other fields are not the ones config() fixes.
ConfigTuned ==
    [config(FALSE, 50, 4, TRUE) EXCEPT !.segments = 2, !.pass = 3,
                                       !.alpha_quality = 50, !.qmax = 80]

Configs == {config(TRUE, 50, 6, TRUE), config(FALSE, 75, 0, FALSE),
            config(FALSE, 50, 4, TRUE), ConfigTuned}

ConfigNone == config(FALSE, 0, 0, FALSE)

empty_webp_picture ==
    [use_argb |-> 1, width |-> 0, height |-> 0, writer |-> "None",
     custom_ptr |-> NULL, error_code |-> VP8_ENC_OK, mem |-> FALSE]

EmptyWriter == [mem |-> NULL, size |-> 0, max_size |-> 0]

NoResult == [kind |-> "none", code |-> 0]
NoOut == [ptr |-> NULL, size |-> 0]
NoImport == [fn |-> "none", buf |-> "none", len |-> 0, stride |-> 0,
             picture |-> empty_webp_picture]

NoEncode == [cfg |-> ConfigNone, picture |-> empty_webp_picture]

(***************************************************************************)
(* Encoder constructors.                                                   *)
(***************************************************************************)
from_rgb(cfg, image, width, height) ==
    [cfg |-> cfg, image |-> image, other |-> 0, width |-> width,
     height |-> height, layout |-> "RGB"]

from_rgba(cfg, image, width, height) ==
    [cfg |-> cfg, image |-> image, other |-> 0, width |-> width,
     height |-> height, layout |-> "RGBA"]

from_other(cfg, image, width, height, other) ==
    [cfg |-> cfg, image |-> image, other |-> other, width |-> width,
     height |-> height, layout |-> "Other"]

\* Encoder::from_image: a DynamicImage is its variant and geometry; as_bytes
\* has width*height*bytes-per-pixel bytes, to_rgba8 width*height*4.
BytesPerPixel(variant) ==
    CASE variant = "ImageRgb8" -> 3
      [] variant = "ImageRgba8" -> 4
      [] variant = "ImageLuma8" -> 1
      [] OTHER -> 2

from_image(cfg, image) ==
    LET as_bytes == image.width * image.height * BytesPerPixel(image.variant)
    IN CASE image.variant = "ImageRgb8" ->
              from_rgb(cfg, as_bytes, image.width, image.height)
         [] image.variant = "ImageRgba8" ->
              from_rgba(cfg, as_bytes, image.width, image.height)
         [] OTHER ->
              from_other(cfg, as_bytes, image.width, image.height,
                         image.width * image.height * 4)

Images ==
    [variant : {"ImageRgb8", "ImageRgba8", "ImageLuma8", "ImageLumaA8"},
     width : {1, 2}, height : {1, 2}]

\* PixelLayout is a public enum, so BGR and BGRA are layouts an Encoder of
\* this module can carry although no public constructor sets them.
with_layout(cfg, image, width, height, layout) ==
    [cfg |-> cfg, image |-> image, other |-> 0, width |-> width,
     height |-> height, layout |-> layout]

Encoders ==
    {from_rgb(c, n, w, h) : c \in Configs, n \in Lens, w \in Widths, h \in Heights}
    \cup {from_rgba(c, n, w, h) : c \in Configs, n \in Lens, w \in Widths, h \in Heights}
    \cup {from_other(c, 4, w, h, n) : c \in Configs, n \in Lens, w \in Widths, h \in Heights}
    \cup {with_layout(c, n, w, h, l) : c \in Configs, n \in Lens, w \in Widths,
                                       h \in Heights, l \in {"BGR", "BGRA"}}
    \cup {from_image(c, im) : c \in Configs, im \in Images}

\* Encoder::encode handing over the original bytes whatever the layout
EncodeImg_original(e) == [buf |-> "image", len |-> e.image]

\* Encoder::encode: the (img, layout) pair handed to the unsafe encode.
EncodeImg(e) ==
    IF e.layout = "Other" THEN [buf |-> "other", len |-> e.other]
    ELSE [buf |-> "image", len |-> e.image]

EncodeLayout(e) == IF e.layout = "Other" THEN "RGBA" ELSE e.layout

\* line 187: everything the unsafe encode receives from the Encoder
Handoff(e) ==
    [cfg |-> e.cfg, image |-> EncodeImg(e).len, layout |-> EncodeLayout(e),
     width |-> e.width, height |-> e.height]

(***************************************************************************)
(* c_int arithmetic of `width as _` and `width * 3`.              *)
(***************************************************************************)
Wrap32(x) ==
    LET m == x % (UIntMax + 1) IN IF m > IntMax THEN m - (UIntMax + 1) ELSE m

ToCInt(u) == Wrap32(u)

MulOverflows(a, b) == a * b > IntMax \/ a * b < IntMin

Channels(layout) == IF layout \in {"RGB", "BGR"} THEN 3 ELSE 4

Stride(width, layout) == Wrap32(width * Channels(layout))

ImportFn(layout) == "WebPPictureImport" \o layout

Abs(x) == IF x < 0 THEN -x ELSE x

(***************************************************************************)
(* check_ok!: the step returns early with an error iff the flag is 0.      *)
(***************************************************************************)
check_ok_never(e) == FALSE

check_ok(e) == e = 0

(***************************************************************************)
(* What the codec's primitives do to the structures they are handed.       *)
(***************************************************************************)
\* WebPConfigInitInternal with WEBP_PRESET_DEFAULT: library defaults, the
\* quality argument stored.
ConfigPreset(quality) ==
    [lossless |-> 0, quality |-> quality, method |-> 4, segments |-> 4,
     alpha_quality |-> 100, pass |-> 1, thread_level |-> 0,
     near_lossless |-> 100, qmin |-> 0, qmax |-> 100]

\* WebPPictureInitInternal: the structure zeroed, a dummy writer installed.
PictureInitialised ==
    [use_argb |-> 0, width |-> 0, height |-> 0, writer |-> "DummyWriter",
     custom_ptr |-> NULL, error_code |-> VP8_ENC_OK, mem |-> FALSE]

\* The import primitive succeeds only on a positive geometry whose stride
\* covers a row; it then copies height rows of width*step bytes.
ImportCanSucceed(w, h, stride, step) ==
    w > 0 /\ h > 0 /\ Abs(stride) >= Wrap32(step * w)

\* Some byte the import primitive reads lies outside a slice of len bytes.
ReadsOutside(len, w, h, stride, step) ==
    \/ (h - 1) * stride < 0
    \/ (IF stride > 0 THEN (h - 1) * stride ELSE 0) + w * step > len

Max(a, b) == IF a >= b THEN a ELSE b

\* free(p) of the foreign allocator; free(NULL) does nothing.
FreedLive(p) == IF p = NULL THEN live ELSE live \ {p}
FreedCalls(p) ==
    IF p = NULL THEN freeCalls ELSE [freeCalls EXCEPT ![p] = @ + 1]

(***************************************************************************)
(* encode(), lines 199-269.                                                *)
(***************************************************************************)
Return(kind, code) ==
    /\ result' = [kind |-> kind, code |-> code]
    /\ pc' = "done"

Call(fn) == calls' = Append(calls, fn)

Flag(fn, r) == failed' = IF r = 0 THEN Append(failed, fn) ELSE failed

\* lines 200-210
Alloc ==
    /\ pc = "start"
    /\ picture' = empty_webp_picture
    /\ writer' = EmptyWriter
    /\ cfgBox' = enc.cfg
    /\ boxes' = {"cfg_ptr", "picture_ptr", "writer_ptr"}
    /\ pc' = "config_init"
    /\ UNCHANGED <<parVars, failed, encodeArgs, afterFree, enc, overflowChecks, ok, calls, importArgs, oobRead, live,
                   freeCalls, nextBlock, nWrites, encodeCode, sinkAtReturn,
                   result, out, outState, viewLen>>

\* lines 212-218, with a config-init that leaves the structure as handed in
ConfigInit_keepsCaller ==
    /\ pc = "config_init"
    /\ \E r \in {0, 1} :
        /\ ok' = r
        /\ cfgBox' = cfgBox
        /\ Call("WebPConfigInitInternal")
        /\ Flag("WebPConfigInitInternal", r)
        /\ IF check_ok(r)
           THEN Return("ConfigInitError", 0)
           ELSE pc' = "picture_init" /\ UNCHANGED result
    /\ UNCHANGED <<parVars, encodeArgs, afterFree, enc, overflowChecks, boxes, picture, writer, importArgs,
                   oobRead, live, freeCalls, nextBlock, nWrites, encodeCode,
                   sinkAtReturn, out, outState, viewLen>>

\* lines 212-218
ConfigInit ==
    /\ pc = "config_init"
    /\ \E r \in {0, 1} :
        /\ ok' = r
        /\ cfgBox' = IF r = 1 THEN ConfigPreset(enc.cfg.quality) ELSE cfgBox
        /\ Call("WebPConfigInitInternal")
        /\ Flag("WebPConfigInitInternal", r)
        /\ IF check_ok(r)
           THEN Return("ConfigInitError", 0)
           ELSE pc' = "picture_init" /\ UNCHANGED result
    /\ UNCHANGED <<parVars, encodeArgs, afterFree, enc, overflowChecks, boxes, picture, writer, importArgs,
                   oobRead, live, freeCalls, nextBlock, nWrites, encodeCode,
                   sinkAtReturn, out, outState, viewLen>>

\* lines 220-221
PictureInit ==
    /\ pc = "picture_init"
    /\ \E r \in {0, 1} :
        /\ ok' = r
        /\ picture' = IF r = 1 THEN PictureInitialised ELSE picture
        /\ Call("WebPPictureInitInternal")
        /\ Flag("WebPPictureInitInternal", r)
        /\ IF check_ok(r)
           THEN Return("PictureInitError", 0)
           ELSE pc' = "apply" /\ UNCHANGED result
    /\ UNCHANGED <<parVars, encodeArgs, afterFree, enc, overflowChecks, boxes, cfgBox, writer, importArgs,
                   oobRead, live, freeCalls, nextBlock, nWrites, encodeCode,
                   sinkAtReturn, out, outState, viewLen>>

\* lines 223-234 without line 225
ApplyIntent_noMethod ==
    /\ pc = "apply"
    /\ picture' = [picture EXCEPT !.use_argb = enc.cfg.lossless,
                                  !.width = ToCInt(enc.width),
                                  !.height = ToCInt(enc.height),
                                  !.writer = "WebPMemoryWrite",
                                  !.custom_ptr = "writer_ptr"]
    /\ cfgBox' = [cfgBox EXCEPT !.lossless = enc.cfg.lossless,
                                !.thread_level = enc.cfg.thread_level]
    /\ pc' = "writer_init"
    /\ UNCHANGED <<parVars, failed, encodeArgs, afterFree, enc, overflowChecks, boxes, writer, ok, calls, importArgs,
                   oobRead, live, freeCalls, nextBlock, nWrites, encodeCode,
                   sinkAtReturn, result, out, outState, viewLen>>

\* lines 223-234 without lines 233-234
ApplyIntent_noSink ==
    /\ pc = "apply"
    /\ picture' = [picture EXCEPT !.use_argb = enc.cfg.lossless,
                                  !.width = ToCInt(enc.width),
                                  !.height = ToCInt(enc.height)]
    /\ cfgBox' = [cfgBox EXCEPT !.lossless = enc.cfg.lossless,
                                !.method = enc.cfg.method,
                                !.thread_level = enc.cfg.thread_level]
    /\ pc' = "writer_init"
    /\ UNCHANGED <<parVars, failed, encodeArgs, afterFree, enc, overflowChecks, boxes, writer, ok, calls, importArgs,
                   oobRead, live, freeCalls, nextBlock, nWrites, encodeCode,
                   sinkAtReturn, result, out, outState, viewLen>>

\* lines 223-234
ApplyIntent ==
    /\ pc = "apply"
    /\ picture' = [picture EXCEPT !.use_argb = enc.cfg.lossless,
                                  !.width = ToCInt(enc.width),
                                  !.height = ToCInt(enc.height),
                                  !.writer = "WebPMemoryWrite",
                                  !.custom_ptr = "writer_ptr"]
    /\ cfgBox' = [cfgBox EXCEPT !.lossless = enc.cfg.lossless,
                                !.method = enc.cfg.method,
                                !.thread_level = enc.cfg.thread_level]
    /\ pc' = "writer_init"
    /\ UNCHANGED <<parVars, failed, encodeArgs, afterFree, enc, overflowChecks, boxes, writer, ok, calls, importArgs,
                   oobRead, live, freeCalls, nextBlock, nWrites, encodeCode,
                   sinkAtReturn, result, out, outState, viewLen>>

\* line 235
WriterInit ==
    /\ pc = "writer_init"
    /\ writer' = EmptyWriter
    /\ Call("WebPMemoryWriterInit")
    /\ pc' = "import"
    /\ UNCHANGED <<parVars, failed, encodeArgs, afterFree, enc, overflowChecks, boxes, cfgBox, picture, ok, importArgs,
                   oobRead, live, freeCalls, nextBlock, nWrites, encodeCode,
                   sinkAtReturn, result, out, outState, viewLen>>

\* lines 237-256, `width * 3` overflowing in a build with overflow checks
ImportPanic ==
    /\ pc = "import"
    /\ overflowChecks
    /\ MulOverflows(picture.width, Channels(EncodeLayout(enc)))
    /\ Return("panic", 0)
    /\ UNCHANGED <<parVars, failed, encodeArgs, afterFree, enc, overflowChecks, boxes, cfgBox, picture, writer, ok,
                   calls, importArgs, oobRead, live, freeCalls, nextBlock,
                   nWrites, encodeCode, sinkAtReturn, out, outState, viewLen>>

\* lines 237-256
Import ==
    /\ pc = "import"
    /\ ~(overflowChecks /\ MulOverflows(picture.width, Channels(EncodeLayout(enc))))
    /\ LET layout == EncodeLayout(enc)
           img == EncodeImg(enc)
           step == Channels(layout)
           stride == Stride(picture.width, layout)
           can == ImportCanSucceed(picture.width, picture.height, stride, step)
       IN \E r \in {0, 1}, keeps \in BOOLEAN :
            /\ r = 1 => can /\ keeps
            /\ ~can => ~keeps
            /\ ok' = r
            /\ picture' = [picture EXCEPT !.mem = keeps]
            /\ oobRead' = (r = 1 /\ ReadsOutside(img.len, picture.width,
                                                 picture.height, stride, step))
            /\ importArgs' = [fn |-> ImportFn(layout), buf |-> img.buf,
                              len |-> img.len, stride |-> stride,
                              picture |-> picture]
            /\ Call(ImportFn(layout))
            /\ Flag(ImportFn(layout), r)
            /\ IF check_ok(r)
               THEN Return("ImportError", 0)
               ELSE pc' = "encode" /\ UNCHANGED result
    /\ UNCHANGED <<parVars, encodeArgs, afterFree, enc, overflowChecks, boxes, cfgBox, writer, live, freeCalls,
                   nextBlock, nWrites, encodeCode, sinkAtReturn, out, outState,
                   viewLen>>

\* line 258, the call: WebPEncode starts by clearing the error code
EncodeCall ==
    /\ pc = "encode"
    /\ Call("WebPEncode")
    /\ encodeArgs' = [cfg |-> cfgBox, picture |-> picture]
    /\ picture' = [picture EXCEPT !.error_code = VP8_ENC_OK]
    /\ nWrites' = 0
    /\ pc' = "in_encode"
    /\ UNCHANGED <<parVars, failed, afterFree, enc, overflowChecks, boxes, cfgBox,
                   writer, ok, importArgs,
                   oobRead, live, freeCalls, nextBlock, encodeCode,
                   sinkAtReturn, result, out, outState, viewLen>>

\* line 233: the callback WebPEncode invokes with data_size = n; the memory
\* writer grows the sink into a fresh block when the bytes do not fit.
WebPMemoryWrite(n) ==
    /\ pc = "in_encode"
    /\ nWrites < MaxWrites
    /\ picture.writer = "WebPMemoryWrite"
    /\ picture.custom_ptr = "writer_ptr"
    /\ nWrites' = nWrites + 1
    /\ LET next == writer.size + n IN
        IF next > writer.max_size
        THEN /\ writer' = [mem |-> nextBlock, size |-> next,
                           max_size |-> Max(Max(2 * writer.max_size, next),
                                            MinSinkCap)]
             /\ nextBlock' = nextBlock + 1
             /\ live' = FreedLive(writer.mem) \cup {nextBlock}
             /\ freeCalls' = FreedCalls(writer.mem)
        ELSE /\ writer' = [writer EXCEPT !.size = next]
             /\ UNCHANGED <<nextBlock, live, freeCalls>>
    /\ UNCHANGED <<parVars, failed, encodeArgs, afterFree, enc, overflowChecks, pc, boxes, cfgBox, picture, ok, calls,
                   importArgs, oobRead, encodeCode, sinkAtReturn, result, out,
                   outState, viewLen>>

\* line 258, the return: success only after the container has been written
EncodeReturn ==
    /\ pc = "in_encode"
    /\ \E r \in {0, 1}, c \in ErrorCodes :
        /\ r = 1 => writer.size > 0
        /\ ok' = r
        /\ Flag("WebPEncode", r)
        /\ picture' = [picture EXCEPT !.error_code = IF r = 1 THEN VP8_ENC_OK ELSE c]
        /\ encodeCode' = IF r = 1 THEN VP8_ENC_OK ELSE c
    /\ sinkAtReturn' = [ptr |-> writer.mem, size |-> writer.size]
    /\ pc' = "picture_free"
    /\ UNCHANGED <<parVars, encodeArgs, afterFree, enc, overflowChecks, boxes, cfgBox,
                   writer, calls,
                   importArgs, oobRead, live, freeCalls, nextBlock, nWrites,
                   result, out, outState, viewLen>>

\* line 259 left out
WebPPictureFree_skipped ==
    /\ pc = "picture_free"
    /\ UNCHANGED <<calls, picture>>
    /\ pc' = "check_encode"
    /\ UNCHANGED <<parVars, failed, encodeArgs, afterFree, enc, overflowChecks, boxes, cfgBox, writer, ok, importArgs,
                   oobRead, live, freeCalls, nextBlock, nWrites, encodeCode,
                   sinkAtReturn, result, out, outState, viewLen>>

\* line 259: WebPPictureFree releases the picture's buffers and leaves the
\* rest of the structure, the error code included, as it was
WebPPictureFree ==
    /\ pc = "picture_free"
    /\ Call("WebPPictureFree")
    /\ picture' = [picture EXCEPT !.mem = FALSE]
    /\ pc' = "check_encode"
    /\ UNCHANGED <<parVars, failed, encodeArgs, afterFree, enc, overflowChecks, boxes, cfgBox, writer, ok, importArgs,
                   oobRead, live, freeCalls, nextBlock, nWrites, encodeCode,
                   sinkAtReturn, result, out, outState, viewLen>>

\* line 260
EncodeFailed_inverted(flag) == flag # 0

EncodeFailed(flag) == flag = 0

\* line 264: the code the error message carries
ErrorCodeRead_ok(pic) == VP8_ENC_OK

ErrorCodeRead(pic) == pic.error_code

\* lines 260-268: reads of (*picture_ptr) on the way out, one on the failure
\* branch (error_code, line 264), none on the success branch
PictureReads(flag) == IF EncodeFailed(flag) THEN 1 ELSE 0

\* line 268
NewWebPMemory_capacity(w) == [ptr |-> w.mem, size |-> w.max_size]

NewWebPMemory(w) == [ptr |-> w.mem, size |-> w.size]

\* lines 260-268, the failure branch returning without clearing the sink
CheckEncode_noClear ==
    /\ pc = "check_encode"
    /\ afterFree' = afterFree + PictureReads(ok)
    /\ IF EncodeFailed(ok)
       THEN /\ Return("EncodeError", ErrorCodeRead(picture))
            /\ UNCHANGED <<out, outState>>
       ELSE /\ out' = NewWebPMemory(writer)
            /\ outState' = "live"
            /\ Return("Ok", 0)
    /\ UNCHANGED <<parVars, failed, encodeArgs, enc, overflowChecks, boxes, cfgBox, picture, ok,
                   importArgs, oobRead, nextBlock, nWrites, encodeCode,
                   sinkAtReturn, viewLen, calls, live, freeCalls, writer>>

\* lines 260-268
CheckEncode ==
    /\ pc = "check_encode"
    /\ afterFree' = afterFree + PictureReads(ok)
    /\ IF EncodeFailed(ok)
       THEN /\ Call("WebPMemoryWriterClear")
            /\ live' = FreedLive(writer.mem)
            /\ freeCalls' = FreedCalls(writer.mem)
            /\ writer' = EmptyWriter
            /\ Return("EncodeError", ErrorCodeRead(picture))
            /\ UNCHANGED <<out, outState>>
       ELSE /\ out' = NewWebPMemory(writer)
            /\ outState' = "live"
            /\ Return("Ok", 0)
            /\ UNCHANGED <<calls, live, freeCalls, writer>>
    /\ UNCHANGED <<parVars, failed, encodeArgs, enc, overflowChecks, boxes, cfgBox, picture, ok, importArgs,
                   oobRead, nextBlock, nWrites, encodeCode, sinkAtReturn,
                   viewLen>>

(***************************************************************************)
(* WebPMemory, lines 273-299.                                              *)
(***************************************************************************)
\* lines 290-292 and 296-298: slice::from_raw_parts(self.0, self.1)
SliceLen(m) == m.size

Deref ==
    /\ outState = "live"
    /\ viewLen' = SliceLen(out)
    /\ UNCHANGED <<parVars, failed, encodeArgs, afterFree, enc, overflowChecks, pc, boxes, cfgBox, picture, writer, ok,
                   calls, importArgs, oobRead, live, freeCalls, nextBlock,
                   nWrites, encodeCode, sinkAtReturn, result, out, outState>>

\* lines 281-285, without the WebPFree
Drop_noFree ==
    /\ outState = "live"
    /\ outState' = "dropped"
    /\ UNCHANGED <<parVars, failed, encodeArgs, afterFree, enc, overflowChecks, pc, boxes, cfgBox, picture, writer, ok,
                   calls, importArgs, oobRead, live, freeCalls, nextBlock,
                   nWrites, encodeCode, sinkAtReturn, result, out, viewLen>>

\* lines 281-285
Drop ==
    /\ outState = "live"
    /\ live' = FreedLive(out.ptr)
    /\ freeCalls' = FreedCalls(out.ptr)
    /\ outState' = "dropped"
    /\ UNCHANGED <<parVars, failed, encodeArgs, afterFree, enc, overflowChecks, pc, boxes, cfgBox, picture, writer, ok,
                   calls, importArgs, oobRead, nextBlock, nWrites, encodeCode,
                   sinkAtReturn, result, out, viewLen>>

(***************************************************************************)
(* Two concurrent calls: constants of the two-thread specification.        *)
(***************************************************************************)
Threads == {1, 2}
ParAddrs == 1..6            \* three Box allocations per call
ParBlocks == 1..4
NoPtr == [cfg |-> NULL, picture |-> NULL, writer |-> NULL]
NoRes == [kind |-> "none", code |-> 0, bytes |-> << >>]
FailPoints == {"none", "config", "picture", "import", "encode"}
Scripts == [failAt : FailPoints, writes : {1, 2}]

ParEncoders ==
    {from_rgba(config(TRUE, 50, 6, TRUE), 4, 1, 1),
     from_rgb(config(FALSE, 75, 0, FALSE), 4, 0, 1),
     from_other(ConfigTuned, 2, 2, 1, 8)}

\* the two-thread variables while a single call is being followed
ParIdle ==
    /\ pEnc = [t \in Threads |-> from_rgba(ConfigNone, 0, 0, 0)]
    /\ pScript = [t \in Threads |-> [failAt |-> "none", writes |-> 1]]
    /\ pPc = [t \in Threads |-> "start"]
    /\ pPtr = [t \in Threads |-> NoPtr]
    /\ nextAddr = 1
    /\ boxCfg = [a \in ParAddrs |-> ConfigNone]
    /\ boxPic = [a \in ParAddrs |-> empty_webp_picture]
    /\ boxWr = [a \in ParAddrs |-> EmptyWriter]
    /\ pOk = [t \in Threads |-> 1]
    /\ refs = [t \in Threads |-> {}]
    /\ pData = [b \in ParBlocks |-> << >>]
    /\ pNextBlock = 1
    /\ pWrites = [t \in Threads |-> 0]
    /\ pRes = [t \in Threads |-> NoRes]

\* the single-call variables while two calls are being followed
SeqIdle ==
    /\ enc = from_rgba(ConfigNone, 0, 0, 0)
    /\ overflowChecks = FALSE
    /\ pc = "start"
    /\ boxes = {}
    /\ cfgBox = enc.cfg
    /\ picture = empty_webp_picture
    /\ writer = EmptyWriter
    /\ ok = 1
    /\ calls = << >>
    /\ failed = << >>
    /\ importArgs = NoImport
    /\ encodeArgs = NoEncode
    /\ afterFree = 0
    /\ oobRead = FALSE
    /\ live = {}
    /\ freeCalls = [b \in Blocks |-> 0]
    /\ nextBlock = 1
    /\ nWrites = 0
    /\ encodeCode = VP8_ENC_OK
    /\ sinkAtReturn = NoOut
    /\ result = NoResult
    /\ out = NoOut
    /\ outState = "none"
    /\ viewLen = -1

Init ==
    /\ ParIdle
    /\ enc \in Encoders
    /\ overflowChecks \in BOOLEAN
    /\ pc = "start"
    /\ boxes = {}
    /\ cfgBox = enc.cfg
    /\ picture = empty_webp_picture
    /\ writer = EmptyWriter
    /\ ok = 1
    /\ calls = << >>
    /\ failed = << >>
    /\ importArgs = NoImport
    /\ encodeArgs = NoEncode
    /\ afterFree = 0
    /\ oobRead = FALSE
    /\ live = {}
    /\ freeCalls = [b \in Blocks |-> 0]
    /\ nextBlock = 1
    /\ nWrites = 0
    /\ encodeCode = VP8_ENC_OK
    /\ sinkAtReturn = NoOut
    /\ result = NoResult
    /\ out = NoOut
    /\ outState = "none"
    /\ viewLen = -1

Next ==
    \/ Alloc
    \/ ConfigInit
    \/ PictureInit
    \/ ApplyIntent
    \/ WriterInit
    \/ ImportPanic
    \/ Import
    \/ EncodeCall
    \/ \E n \in 1..MaxChunk : WebPMemoryWrite(n)
    \/ EncodeReturn
    \/ WebPPictureFree
    \/ CheckEncode
    \/ Deref
    \/ Drop

Spec == Init /\ [][Next]_vars

(***************************************************************************)
(* Two encode() calls on two threads.  Each native call is one step; the   *)
(* descriptors live in one heap shared by both threads and are reached     *)
(* through the pointers each call holds.  What the codec does for a call   *)
(* (which step fails, how many writes WebPEncode makes) is fixed by the    *)
(* call's script, and the bytes it emits are a function of the config and  *)
(* picture it is handed.                                                   *)
(***************************************************************************)
seqVars == <<enc, overflowChecks, pc, boxes, cfgBox, picture, writer, ok, calls,
             failed, encodeArgs, afterFree, importArgs, oobRead, live,
             freeCalls, nextBlock, nWrites, encodeCode, sinkAtReturn, result,
             out, outState, viewLen>>

\* lines 208-210, were the three descriptors statics shared by every call
NewBoxes_static(next) == [cfg |-> 1, picture |-> 2, writer |-> 3]

\* lines 208-210: three fresh Box allocations
NewBoxes(next) == [cfg |-> next, picture |-> next + 1, writer |-> next + 2]

\* the bytes of the k-th write of a WebPEncode handed config c and picture p
EmittedChunk(c, p, k) ==
    [i \in 1..MaxChunk |->
        [width |-> p.width, height |-> p.height, use_argb |-> p.use_argb,
         lossless |-> c.lossless, method |-> c.method, quality |-> c.quality,
         k |-> k]]

\* number of writes WebPEncode makes before it returns
WritesOf(script) ==
    IF script.failAt = "encode" THEN script.writes - 1 ELSE script.writes

PReturn(t, kind, code, bytes) ==
    /\ pRes' = [pRes EXCEPT ![t] = [kind |-> kind, code |-> code, bytes |-> bytes]]
    /\ pPc' = [pPc EXCEPT ![t] = "done"]

PGoto(t, where) == pPc' = [pPc EXCEPT ![t] = where] /\ UNCHANGED pRes

PRef(t, addrs) == refs' = [refs EXCEPT ![t] = @ \cup addrs]

\* lines 200-210
PAlloc(t) ==
    /\ pPc[t] = "start"
    /\ nextAddr + 2 \in ParAddrs
    /\ LET ptr == NewBoxes(nextAddr) IN
        /\ pPtr' = [pPtr EXCEPT ![t] = ptr]
        /\ boxCfg' = [boxCfg EXCEPT ![ptr.cfg] = pEnc[t].cfg]
        /\ boxPic' = [boxPic EXCEPT ![ptr.picture] = empty_webp_picture]
        /\ boxWr' = [boxWr EXCEPT ![ptr.writer] = EmptyWriter]
    /\ nextAddr' = nextAddr + 3
    /\ PGoto(t, "config_init")
    /\ UNCHANGED <<seqVars, pEnc, pScript, pOk, refs, pData, pNextBlock, pWrites>>

\* lines 212-218
PConfigInit(t) ==
    /\ pPc[t] = "config_init"
    /\ LET r == IF pScript[t].failAt = "config" THEN 0 ELSE 1
           c == pPtr[t].cfg
       IN /\ pOk' = [pOk EXCEPT ![t] = r]
          /\ PRef(t, {c})
          /\ boxCfg' = IF r = 1
                       THEN [boxCfg EXCEPT ![c] = ConfigPreset(pEnc[t].cfg.quality)]
                       ELSE boxCfg
          /\ IF check_ok(r)
             THEN PReturn(t, "ConfigInitError", 0, << >>)
             ELSE PGoto(t, "picture_init")
    /\ UNCHANGED <<seqVars, pEnc, pScript, pPtr, nextAddr, boxPic, boxWr, pData,
                   pNextBlock, pWrites>>

\* lines 220-221
PPictureInit(t) ==
    /\ pPc[t] = "picture_init"
    /\ LET r == IF pScript[t].failAt = "picture" THEN 0 ELSE 1
           p == pPtr[t].picture
       IN /\ pOk' = [pOk EXCEPT ![t] = r]
          /\ PRef(t, {p})
          /\ boxPic' = IF r = 1 THEN [boxPic EXCEPT ![p] = PictureInitialised]
                       ELSE boxPic
          /\ IF check_ok(r)
             THEN PReturn(t, "PictureInitError", 0, << >>)
             ELSE PGoto(t, "apply")
    /\ UNCHANGED <<seqVars, pEnc, pScript, pPtr, nextAddr, boxCfg, boxWr, pData,
                   pNextBlock, pWrites>>

\* lines 223-234
PApplyIntent(t) ==
    /\ pPc[t] = "apply"
    /\ boxPic' = [boxPic EXCEPT ![pPtr[t].picture] =
                    [@ EXCEPT !.use_argb = pEnc[t].cfg.lossless,
                              !.width = ToCInt(pEnc[t].width),
                              !.height = ToCInt(pEnc[t].height),
                              !.writer = "WebPMemoryWrite",
                              !.custom_ptr = pPtr[t].writer]]
    /\ boxCfg' = [boxCfg EXCEPT ![pPtr[t].cfg] =
                    [@ EXCEPT !.lossless = pEnc[t].cfg.lossless,
                              !.method = pEnc[t].cfg.method,
                              !.thread_level = pEnc[t].cfg.thread_level]]
    /\ PGoto(t, "writer_init")
    /\ UNCHANGED <<seqVars, pEnc, pScript, pPtr, nextAddr, boxWr, pOk, refs,
                   pData, pNextBlock, pWrites>>

\* line 235
PWriterInit(t) ==
    /\ pPc[t] = "writer_init"
    /\ boxWr' = [boxWr EXCEPT ![pPtr[t].writer] = EmptyWriter]
    /\ PRef(t, {pPtr[t].writer})
    /\ PGoto(t, "import")
    /\ UNCHANGED <<seqVars, pEnc, pScript, pPtr, nextAddr, boxCfg, boxPic, pOk,
                   pData, pNextBlock, pWrites>>

\* lines 237-256
PImport(t) ==
    /\ pPc[t] = "import"
    /\ LET layout == EncodeLayout(pEnc[t])
           p == pPtr[t].picture
           step == Channels(layout)
           stride == Stride(ToCInt(pEnc[t].width), layout)
           r == IF /\ pScript[t].failAt # "import"
                   /\ ImportCanSucceed(boxPic[p].width, boxPic[p].height,
                                       stride, step)
                THEN 1 ELSE 0
       IN /\ pOk' = [pOk EXCEPT ![t] = r]
          /\ PRef(t, {p})
          /\ boxPic' = [boxPic EXCEPT ![p] = [@ EXCEPT !.mem = (r = 1)]]
          /\ IF check_ok(r)
             THEN PReturn(t, "ImportError", 0, << >>)
             ELSE PGoto(t, "encode")
    /\ UNCHANGED <<seqVars, pEnc, pScript, pPtr, nextAddr, boxCfg, boxWr, pData,
                   pNextBlock, pWrites>>

\* line 258, the call
PEncodeCall(t) ==
    /\ pPc[t] = "encode"
    /\ PRef(t, {pPtr[t].cfg, pPtr[t].picture})
    /\ boxPic' = [boxPic EXCEPT ![pPtr[t].picture] =
                    [@ EXCEPT !.error_code = VP8_ENC_OK]]
    /\ pWrites' = [pWrites EXCEPT ![t] = 0]
    /\ PGoto(t, "in_encode")
    /\ UNCHANGED <<seqVars, pEnc, pScript, pPtr, nextAddr, boxCfg, boxWr, pOk,
                   pData, pNextBlock>>

\* line 233: the write callback, reaching the sink through custom_ptr
PMemoryWrite(t) ==
    /\ pPc[t] = "in_encode"
    /\ pWrites[t] < WritesOf(pScript[t])
    /\ LET p == pPtr[t].picture
           w == boxPic[p].custom_ptr
           data == EmittedChunk(boxCfg[pPtr[t].cfg], boxPic[p], pWrites[t] + 1)
       IN /\ boxPic[p].writer = "WebPMemoryWrite"
          /\ w \in ParAddrs
          /\ PRef(t, {p, w})
          /\ LET sink == boxWr[w]
                 next == sink.size + MaxChunk
                 held == IF sink.mem = NULL THEN << >>
                         ELSE SubSeq(pData[sink.mem], 1, sink.size)
             IN IF next > sink.max_size
                THEN /\ pNextBlock \in ParBlocks
                     /\ boxWr' = [boxWr EXCEPT ![w] =
                                    [mem |-> pNextBlock, size |-> next,
                                     max_size |-> Max(Max(2 * sink.max_size, next),
                                                      MinSinkCap)]]
                     /\ pData' = [pData EXCEPT ![pNextBlock] = held \o data]
                     /\ pNextBlock' = pNextBlock + 1
                ELSE /\ boxWr' = [boxWr EXCEPT ![w] = [@ EXCEPT !.size = next]]
                     /\ pData' = [pData EXCEPT ![sink.mem] = held \o data]
                     /\ UNCHANGED pNextBlock
    /\ pWrites' = [pWrites EXCEPT ![t] = @ + 1]
    /\ UNCHANGED <<seqVars, pEnc, pScript, pPc, pPtr, nextAddr, boxCfg, boxPic,
                   pOk, pRes>>

\* line 258, the return
PEncodeReturn(t) ==
    /\ pPc[t] = "in_encode"
    /\ pWrites[t] = WritesOf(pScript[t])
    /\ LET r == IF pScript[t].failAt = "encode" THEN 0 ELSE 1 IN
        /\ pOk' = [pOk EXCEPT ![t] = r]
        /\ boxPic' = [boxPic EXCEPT ![pPtr[t].picture] =
                        [@ EXCEPT !.error_code = IF r = 1 THEN VP8_ENC_OK ELSE 1]]
    /\ PGoto(t, "picture_free")
    /\ UNCHANGED <<seqVars, pEnc, pScript, pPtr, nextAddr, boxCfg, boxWr, refs,
                   pData, pNextBlock, pWrites>>

\* line 259
PPictureFree(t) ==
    /\ pPc[t] = "picture_free"
    /\ PRef(t, {pPtr[t].picture})
    /\ boxPic' = [boxPic EXCEPT ![pPtr[t].picture] = [@ EXCEPT !.mem = FALSE]]
    /\ PGoto(t, "check_encode")
    /\ UNCHANGED <<seqVars, pEnc, pScript, pPtr, nextAddr, boxCfg, boxWr, pOk,
                   pData, pNextBlock, pWrites>>

\* lines 260-268
PCheckEncode(t) ==
    /\ pPc[t] = "check_encode"
    /\ LET w == pPtr[t].writer IN
        IF EncodeFailed(pOk[t])
        THEN /\ boxWr' = [boxWr EXCEPT ![w] = EmptyWriter]
             /\ PRef(t, {w})
             /\ PReturn(t, "EncodeError", ErrorCodeRead(boxPic[pPtr[t].picture]),
                        << >>)
        ELSE /\ LET m == NewWebPMemory(boxWr[w]) IN
                   PReturn(t, "Ok", 0,
                           IF m.ptr \in ParBlocks
                           THEN SubSeq(pData[m.ptr], 1, m.size) ELSE << >>)
             /\ UNCHANGED <<boxWr, refs>>
    /\ UNCHANGED <<seqVars, pEnc, pScript, pPtr, nextAddr, boxCfg, boxPic, pOk,
                   pData, pNextBlock, pWrites>>

InitPar ==
    /\ SeqIdle
    /\ pEnc \in [Threads -> ParEncoders]
    /\ pScript \in [Threads -> Scripts]
    /\ pPc = [t \in Threads |-> "start"]
    /\ pPtr = [t \in Threads |-> NoPtr]
    /\ nextAddr = 1
    /\ boxCfg = [a \in ParAddrs |-> ConfigNone]
    /\ boxPic = [a \in ParAddrs |-> empty_webp_picture]
    /\ boxWr = [a \in ParAddrs |-> EmptyWriter]
    /\ pOk = [t \in Threads |-> 1]
    /\ refs = [t \in Threads |-> {}]
    /\ pData = [b \in ParBlocks |-> << >>]
    /\ pNextBlock = 1
    /\ pWrites = [t \in Threads |-> 0]
    /\ pRes = [t \in Threads |-> NoRes]

NextPar ==
    \/ \E t \in Threads : PAlloc(t)
    \/ \E t \in Threads : PConfigInit(t)
    \/ \E t \in Threads : PPictureInit(t)
    \/ \E t \in Threads : PApplyIntent(t)
    \/ \E t \in Threads : PWriterInit(t)
    \/ \E t \in Threads : PImport(t)
    \/ \E t \in Threads : PEncodeCall(t)
    \/ \E t \in Threads : PMemoryWrite(t)
    \/ \E t \in Threads : PEncodeReturn(t)
    \/ \E t \in Threads : PPictureFree(t)
    \/ \E t \in Threads : PCheckEncode(t)

SpecPar == InitPar /\ [][NextPar]_vars

\* The result of one call run alone: the protocol of lines 212-268 run to
\* completion on the call's own descriptors.
AloneCfg(e) ==
    [ConfigPreset(e.cfg.quality) EXCEPT !.lossless = e.cfg.lossless,
                                        !.method = e.cfg.method,
                                        !.thread_level = e.cfg.thread_level]

AlonePicture(e) ==
    [PictureInitialised EXCEPT !.use_argb = e.cfg.lossless,
                               !.width = ToCInt(e.width),
                               !.height = ToCInt(e.height),
                               !.mem = TRUE]

RECURSIVE AloneBytes(_, _)
AloneBytes(e, k) ==
    IF k = 0 THEN << >>
    ELSE AloneBytes(e, k - 1) \o EmittedChunk(AloneCfg(e), AlonePicture(e), k)

AloneResult(e, script) ==
    LET layout == EncodeLayout(e)
        stride == Stride(ToCInt(e.width), layout)
        importable == ImportCanSucceed(ToCInt(e.width), ToCInt(e.height),
                                       stride, Channels(layout))
    IN CASE script.failAt = "config" ->
              [kind |-> "ConfigInitError", code |-> 0, bytes |-> << >>]
         [] script.failAt = "picture" ->
              [kind |-> "PictureInitError", code |-> 0, bytes |-> << >>]
         [] script.failAt = "import" \/ (script.failAt \in {"none", "encode"}
                                         /\ ~importable) ->
              [kind |-> "ImportError", code |-> 0, bytes |-> << >>]
         [] script.failAt = "encode" /\ importable ->
              [kind |-> "EncodeError", code |-> 1, bytes |-> << >>]
         [] OTHER ->
              [kind |-> "Ok", code |-> 0, bytes |-> AloneBytes(e, script.writes)]

(***************************************************************************)
(* Properties.                                                             *)
(***************************************************************************)
Count(fn) == Cardinality({i \in DOMAIN calls : calls[i] = fn})

Called(fn) == \E i \in DOMAIN calls : calls[i] = fn

Returned == pc = "done"

ImportFns == {ImportFn(l) : l \in Layouts \ {"Other"}}

StepFns == {"WebPConfigInitInternal", "WebPPictureInitInternal", "WebPEncode"}
           \cup ImportFns

IsStep(fn) == fn \in StepFns

Steps == SelectSeq(calls, IsStep)

KindOf(fn) ==
    CASE fn = "WebPConfigInitInternal" -> "ConfigInitError"
      [] fn = "WebPPictureInitInternal" -> "PictureInitError"
      [] fn = "WebPEncode" -> "EncodeError"
      [] OTHER -> "ImportError"

ErrorKinds == {"ConfigInitError", "PictureInitError", "ImportError", "EncodeError"}

SinkCleared == Called("WebPMemoryWriterClear")

SinkTransferred == outState # "none"

\* C1: when encode() has returned, on whatever path, picture-free has been
\* called exactly once on the picture descriptor.
C1_PictureFreedExactlyOnce ==
    Returned => Count("WebPPictureFree") = 1

\* C2: when encode() returns the import error, picture-free has been called
\* and nothing the picture holds is still allocated.
C2_ImportFailureReleasesPicture ==
    result.kind = "ImportError" => Called("WebPPictureFree") /\ ~picture.mem

\* C3 as stated: for every call of encode(), exactly one of the two sink
\* release paths (clear by the orchestrator, transfer into the output
\* buffer) has executed when the call returns.
C3_ExactlyOneSinkReleaseEveryCall ==
    Returned => (SinkCleared /\ ~SinkTransferred) \/ (SinkTransferred /\ ~SinkCleared)

\* C3 amended: the two sink release paths never both execute; a call that
\* invoked the encode primitive has executed exactly one of them when it
\* returns (clear when the primitive failed, transfer when it succeeded); a
\* call that ended before the encode primitive has executed neither, and its
\* sink is still empty.
C3_SinkReleasePaths ==
    /\ ~(SinkCleared /\ SinkTransferred)
    /\ Count("WebPMemoryWriterClear") <= 1
    /\ Returned /\ Called("WebPEncode") =>
          /\ ok = 0 => SinkCleared /\ ~SinkTransferred
          /\ ok = 1 => SinkTransferred /\ ~SinkCleared
    /\ Returned /\ ~Called("WebPEncode") =>
          ~SinkCleared /\ ~SinkTransferred /\ writer = EmptyWriter /\ live = {}

C3_Witness ==
    /\ Returned
    /\ result.kind = "EncodeError"
    /\ SinkCleared
    /\ sinkAtReturn.ptr # NULL
    /\ live = {}

\* C4: after a successful encode() the orchestrator has not cleared the
\* sink, the foreign free has not been called on the sink pointer while the
\* output buffer is alive, and it has been called exactly once on it when
\* the output buffer has been dropped.
C4_SinkFreedOnceByDrop ==
    result.kind = "Ok" =>
        /\ ~SinkCleared
        /\ out.ptr \in Blocks
        /\ outState = "live" => freeCalls[out.ptr] = 0 /\ out.ptr \in live
        /\ outState = "dropped" => freeCalls[out.ptr] = 1 /\ out.ptr \notin live

C4_Witness ==
    result.kind = "Ok" /\ outState = "dropped" /\ nextBlock > 2

\* C5: at most one native step fails in a call, no native step (config-init,
\* picture-init, import, encode) is invoked after the failing one, and the
\* failure encode() returns is the kind of that step.
C5_FirstFailureDecides ==
    /\ Len(failed) <= 1
    /\ failed # << >> => Steps # << >> /\ Steps[Len(Steps)] = failed[1]
    /\ Returned /\ failed # << >> => result.kind = KindOf(failed[1])
    /\ result.kind \in ErrorKinds => failed # << >>
    /\ Returned /\ failed = << >> => result.kind \in {"Ok", "panic"}

C5_Witness ==
    /\ Returned
    /\ result.kind = "PictureInitError"
    /\ calls = <<"WebPConfigInitInternal", "WebPPictureInitInternal">>

\* C6: a call whose pixel buffer is shorter than width*height*channels and
\* which reaches the import step returns ImportError, and the import step
\* reads no byte outside the buffer.
C6_ShortBufferRejected ==
    (/\ Returned
     /\ importArgs.fn # "none"
     /\ importArgs.len < enc.width * enc.height * Channels(EncodeLayout(enc)))
    => result.kind = "ImportError" /\ ~oobRead

\* C7: when encode() has returned, everything the call allocated other than
\* the returned output buffer has been released: the three descriptor
\* structures, the picture's buffers and every sink block.
C7_EverythingReleased ==
    Returned =>
        /\ boxes = {}
        /\ ~picture.mem
        /\ live \subseteq (IF outState = "live" THEN {out.ptr} ELSE {})

\* C8: the code carried by EncodeError is the error code the encode
\* primitive stored in the picture descriptor during the call.
C8_ErrorCodePreserved ==
    result.kind = "EncodeError" => result.code = encodeCode

C8_Witness ==
    result.kind = "EncodeError" /\ result.code = 9 /\ Called("WebPPictureFree")

C10_OutputIsSink ==
    result.kind = "Ok" =>
        /\ out.ptr = sinkAtReturn.ptr
        /\ out.size = sinkAtReturn.size
        /\ viewLen # -1 => viewLen = sinkAtReturn.size

C10_Witness ==
    /\ result.kind = "Ok"
    /\ viewLen = sinkAtReturn.size
    /\ writer.max_size > writer.size
    /\ nWrites > 1

Imported == importArgs.fn # "none"

IndexOf(fn) == CHOOSE i \in DOMAIN calls : calls[i] = fn

\* C11: an Encoder whose layout is Other hands the unsafe encode what an
\* Encoder built with from_rgba on the normalized RGBA bytes hands it, and
\* the import primitive it invokes is the RGBA one, on the normalized buffer
\* (never the original bytes), with the RGBA stride of the same width.
C11_OtherEncodesAsRgba ==
    enc.layout = "Other" =>
        /\ Handoff(enc) =
              Handoff(from_rgba(enc.cfg, enc.other, enc.width, enc.height))
        /\ Imported =>
              /\ importArgs.fn = ImportFn("RGBA")
              /\ importArgs.buf = "other"
              /\ importArgs.len = enc.other
              /\ importArgs.stride = Stride(ToCInt(enc.width), "RGBA")
              /\ importArgs.picture.width = ToCInt(enc.width)
              /\ importArgs.picture.height = ToCInt(enc.height)

C11_Witness ==
    /\ enc.layout = "Other"
    /\ enc.image # enc.other
    /\ Imported
    /\ Called("WebPEncode")

\* C13: once picture-free has been called, encode() does not access the
\* picture descriptor again.
C13_NoAccessAfterFree ==
    afterFree = 0

\* C14: the native call that follows the encode primitive is picture-free;
\* it has been made before the sink is cleared on the failure path and
\* before the output buffer exists on the success path.
C14_FreeFollowsEncode ==
    /\ \A i \in DOMAIN calls :
          calls[i] = "WebPEncode" /\ i < Len(calls) =>
              calls[i + 1] = "WebPPictureFree"
    /\ pc \in {"check_encode", "done"} /\ Called("WebPEncode") =>
          Called("WebPPictureFree")
    /\ SinkCleared =>
          /\ Called("WebPPictureFree")
          /\ IndexOf("WebPPictureFree") < IndexOf("WebPMemoryWriterClear")
    /\ SinkTransferred => Called("WebPPictureFree")

C14_Witness ==
    /\ result.kind = "EncodeError"
    /\ Len(calls) >= 3
    /\ SubSeq(calls, Len(calls) - 2, Len(calls)) =
          <<"WebPEncode", "WebPPictureFree", "WebPMemoryWriterClear">>

\* C15: the stride the import primitive receives is width * 3 (RGB, BGR) or
\* width * 4 (RGBA, BGRA, Other) as a mathematical integer, for every width.
C15_StrideIsExact ==
    Imported => importArgs.stride = enc.width * Channels(EncodeLayout(enc))

\* C16: the import primitive is invoked only when width * height > 0.
C16_ImportNeedsPixels ==
    Imported => enc.width * enc.height > 0

\* C17: the config WebPEncode receives has the caller's lossless, method,
\* thread_level and quality, and the picture it receives has use_argb equal
\* to the caller's lossless flag and the Encoder's width and height.
C17_CallerIntentApplied ==
    Called("WebPEncode") =>
        /\ encodeArgs.cfg.lossless = enc.cfg.lossless
        /\ encodeArgs.cfg.method = enc.cfg.method
        /\ encodeArgs.cfg.thread_level = enc.cfg.thread_level
        /\ encodeArgs.cfg.quality = enc.cfg.quality
        /\ encodeArgs.picture.use_argb = enc.cfg.lossless
        /\ encodeArgs.picture.width = enc.width
        /\ encodeArgs.picture.height = enc.height

C17_Witness ==
    /\ Called("WebPEncode")
    /\ enc.cfg.method = 6
    /\ enc.cfg.lossless = 1
    /\ enc.cfg.thread_level = 1
    /\ encodeArgs.picture.width = 2

NativeOrder(e) ==
    <<"WebPConfigInitInternal", "WebPPictureInitInternal",
      "WebPMemoryWriterInit", ImportFn(EncodeLayout(e)), "WebPEncode">>

InOrder(fn) == fn \in {NativeOrder(enc)[i] : i \in 1..5} \cup ImportFns

\* C18: the native calls config-init, picture-init, writer-init, import,
\* encode are made in that order; the write callback is installed and the
\* sink bound only after picture-init, and when the import and encode
\* primitives are invoked the callback is installed, the sink is bound and
\* the sink has been initialised to empty.
C18_ProtocolOrder ==
    /\ LET made == SelectSeq(calls, InOrder)
       IN /\ Len(made) <= 5
          /\ made = SubSeq(NativeOrder(enc), 1, Len(made))
    /\ pc \in {"start", "config_init", "picture_init", "apply"} =>
          picture.writer # "WebPMemoryWrite" /\ picture.custom_ptr = NULL
    /\ Imported =>
          /\ importArgs.picture.writer = "WebPMemoryWrite"
          /\ importArgs.picture.custom_ptr = "writer_ptr"
    /\ Called("WebPEncode") =>
          /\ encodeArgs.picture.writer = "WebPMemoryWrite"
          /\ encodeArgs.picture.custom_ptr = "writer_ptr"
    /\ pc \in {"import", "encode"} => writer = EmptyWriter

C18_Witness ==
    /\ pc = "in_encode"
    /\ calls = NativeOrder(enc)
    /\ writer.size > 0

KnobFields == {"quality", "lossless", "method", "thread_level"}

\* C19: the fields of the caller's Config other than quality, lossless,
\* method and thread_level do not reach the codec: the config WebPEncode
\* receives carries the codec's own defaults in them, and of the Config only
\* the lossless flag enters the picture the import and encode primitives
\* receive.
C19_SecondaryFieldsIgnored ==
    /\ Called("WebPEncode") =>
          /\ \A f \in DOMAIN enc.cfg \ KnobFields :
                encodeArgs.cfg[f] = ConfigPreset(0)[f]
          /\ encodeArgs.picture =
                [importArgs.picture EXCEPT !.mem = TRUE]
    /\ Imported =>
          importArgs.picture =
              [PictureInitialised EXCEPT !.use_argb = enc.cfg.lossless,
                                         !.width = ToCInt(enc.width),
                                         !.height = ToCInt(enc.height),
                                         !.writer = "WebPMemoryWrite",
                                         !.custom_ptr = "writer_ptr"]

C19_Witness ==
    /\ Called("WebPEncode")
    /\ enc.cfg = ConfigTuned
    /\ encodeArgs.cfg.segments # enc.cfg.segments
    /\ encodeArgs.cfg.pass # enc.cfg.pass

Owned(t) == {pPtr[t].cfg, pPtr[t].picture, pPtr[t].writer} \ {NULL}

\* C12: in every interleaving of two encode() calls, each call's native
\* calls are handed, and reach, only the config, picture and sink
\* descriptors that call allocated, the descriptors of the two calls are
\* distinct, and each call returns what the same call returns when run alone
\* against the same codec behaviour.
C12_CallsAreIsolated ==
    /\ \A t \in Threads : refs[t] \subseteq Owned(t)
    /\ Owned(1) \cap Owned(2) = {}
    /\ \A t \in Threads :
          pPc[t] = "done" => pRes[t] = AloneResult(pEnc[t], pScript[t])

C12_Witness ==
    /\ \A t \in Threads : pPc[t] = "done" /\ pRes[t].kind = "Ok"
    /\ pEnc[1] # pEnc[2]
    /\ pRes[1].bytes # pRes[2].bytes
    /\ pScript[1].writes = 2 /\ pScript[2].writes = 2
    /\ pPtr[2].cfg < pPtr[1].cfg
    /\ boxWr[pPtr[1].writer].mem < boxWr[pPtr[2].writer].mem

====
